---- MODULE Spec2Model ----
(***************************************************************************)
(* surface_temp_timelapse_seasonality.py as a state machine.               *)
(*                                                                         *)
(* The script is one sequential process.  Its persistent state is the      *)
(* content of out_dir (title cards, frame files, the manifest, the video); *)
(* its volatile state is the loop position and seasonal_sequence.  A run   *)
(* ends normally (pc = "done") or by an uncaught exception or process      *)
(* termination (pc = "aborted"); StartRun launches the script again on the *)
(* directory the previous run left.                                        *)
(*                                                                         *)
(* Specification Spec is the pipeline (lines 55-125); specification        *)
(* ResolverSpec is get_guided_lst (lines 29-52) evaluated over an archive  *)
(* of observations.                                                        *)
(***************************************************************************)
EXTENDS Integers, Sequences, FiniteSets, TLC

\* ---- bounds of the model ----
MaxRuns == 2        \* consecutive runs of the script on the same out_dir
MaxObs == 2         \* observations in the archive (ResolverSpec)

\* ---- program constants ----
FirstYear == 2014         \* years = range(2014, 2026)
FirstMonth == 1           \* months = range(1, 13)
Threshold == 50000        \* os.path.getsize(png_path) < 50000
TitleDuration == 20       \* 'duration': 2.0, in tenths of a second
FrameDuration == 10       \* 'duration': 1.0, in tenths of a second
CloudLimit == 45          \* ee.Filter.lt('CLOUD_COVER', 45)
FallbackFirst == 2014     \* ee.Filter.calendarRange(2014, 2024, 'year')
FallbackLast == 2024
VisMin == 0               \* lst_img.visualize(min=0, max=40, ...)
VisMax == 40

out_dir == "Chatt_Pro_Pulse"

VARIABLES
  cfg,                \* the configured ranges: months = range(a, b), years = range(a, b)
  run,                \* ordinal of the current run
  pc,                 \* position of the script
  mo, yr,             \* loop variables of the month loop and the year loop
  seasonal_sequence,  \* the SequenceItem list
  disk,               \* out_dir: basename -> file (title cards and frame files)
  manifest,           \* ffmpeg_input.txt, a sequence of lines
  video,              \* hixson_seasonal_analysis.mp4
  log,                \* what this run printed about failures
  \* observations of the current run (history, never read by the script)
  allCached0,         \* when the run started every frame file was there, >= 50000 bytes
  calls,              \* PeriodKey -> number of get_guided_lst calls
  thumbs,             \* PeriodKey -> number of get_image_thumbnail calls
  gateSaw,            \* the file the cache gate looked at for the current frame
  cardWrites,         \* month -> number of times cut_img.save opened the card for writing
  fault,              \* what ended this run early or made the encoding step fail
  failedKey,          \* the first frame of this run whose retrieval failed
  clean,              \* no retrieval and no annotation has failed in this run
  prevClean,          \* the previous run ended normally and clean
  \* get_guided_lst over an archive (ResolverSpec)
  archive,            \* the observations of the imagery source
  req,                \* the PeriodKey get_guided_lst was called with
  out                 \* what get_guided_lst computed

runVars == <<cfg, run>>
histVars == <<allCached0, calls, thumbs, gateSaw, cardWrites, fault, failedKey, clean,
              prevClean>>
pipeVars == <<runVars, pc, mo, yr, seasonal_sequence, disk, manifest, video, log, histVars>>
resVars == <<archive, req, out>>
vars == <<pipeVars, resVars>>

\* ---- Python helpers ----

\* range(a, b)
Range(r) == r[1] .. (r[2] - 1)

Digits == <<"0", "1", "2", "3", "4", "5", "6", "7", "8", "9">>
Digit(d) == Digits[d + 1]
DigitValue == [s \in {Digits[i] : i \in 1..10} |-> CHOOSE d \in 0..9 : Digits[d + 1] = s]
DigitVal(s) == DigitValue[s]

\* f"{mo:02d}"
Pad2(n) == <<Digit((n \div 10) % 10), Digit(n % 10)>>
\* f"{yr}" for a four-digit year
Dec4(n) == <<Digit((n \div 1000) % 10), Digit((n \div 100) % 10),
             Digit((n \div 10) % 10), Digit(n % 10)>>

\* f"cutscene_{mo:02d}.png"
CutName(m) == <<"cutscene_">> \o Pad2(m) \o <<".png">>
\* f"guided_{mo:02d}_{yr}.png"
GuidedName(m, y) == <<"guided_">> \o Pad2(m) \o <<"_">> \o Dec4(y) \o <<".png">>

\* os.path.join(out_dir, name) and os.path.basename(path)
Join(dir, name) == [dir |-> dir, base |-> name]
Basename(path) == path.base

\* f"{item['duration']}" of a float with one decimal, kept in tenths
FloatStr(t) == <<Digit(t \div 10), ".", Digit(t % 10)>>

\* ---- out_dir ----
NoFile == [exists |-> FALSE, size |-> 0, content |-> "none"]
Sizes == {Threshold - 1, Threshold}
Keys(c) == Range(c.months) \X Range(c.years)
CardNames(c) == {CutName(m) : m \in Range(c.months)}
FrameNames(c) == {GuidedName(k[1], k[2]) : k \in Keys(c)}
Names(c) == CardNames(c) \cup FrameNames(c)

\* The configurations explored: the script's ranges cut down to two months by two
\* years, to three months of one year and to one month of three years, and the
\* single-frame configuration months = {6}, years = {2020}.
Configs == {[months |-> <<FirstMonth, FirstMonth + 2>>, years |-> <<FirstYear, FirstYear + 2>>],
            [months |-> <<FirstMonth, FirstMonth + 3>>, years |-> <<FirstYear, FirstYear + 1>>],
            [months |-> <<FirstMonth, FirstMonth + 1>>, years |-> <<FirstYear, FirstYear + 3>>],
            [months |-> <<6, 7>>, years |-> <<2020, 2021>>]}

\* variants of the gate: "<=" for "<", "and" for "or", the size test left out
MustGenerateInclusive(f) == (~f.exists) \/ f.size <= Threshold
MustGenerateBoth(f) == (~f.exists) /\ f.size < Threshold
MustGenerateMissingOnly(f) == ~f.exists

\* os.path.exists(png_path) / os.path.getsize(png_path) < 50000
MustGenerate(f) == (~f.exists) \/ f.size < Threshold

Min(S) == CHOOSE x \in S : \A y \in S : x <= y

\* ---- the pipeline (lines 55-125) ----

Months == Range(cfg.months)
Years == Range(cfg.years)
CardFile == [exists |-> TRUE, size |-> 1, content |-> "whole"]   \* a card's size is never read
Unseen == [exists |-> FALSE, size |-> 0, content |-> "unseen"]
NoKey == <<0, 0>>
Zero(S) == [k \in S |-> 0]
Put(name, file) == [disk EXCEPT ![name] = file]
Truncated(s) == [exists |-> TRUE, size |-> s, content |-> "truncated"]
Whole(s) == [exists |-> TRUE, size |-> s, content |-> "whole"]
AllCached(d, c) == \A n \in FrameNames(c) : d[n].exists /\ d[n].size >= Threshold

\* seasonal_sequence.append({'path': ..., 'duration': ...})
Append2(seq, path, d) == Append(seq, [path |-> path, duration |-> d])

PipeInit ==
  /\ cfg \in Configs
  /\ run = 1
  /\ pc = "title"
  /\ mo = Min(Range(cfg.months))
  /\ yr = Min(Range(cfg.years))
  /\ seasonal_sequence = <<>>
  /\ disk = [n \in Names(cfg) |-> NoFile]
  /\ manifest = <<>>
  /\ video = "absent"
  /\ log = {}
  /\ allCached0 = AllCached(disk, cfg)
  /\ calls = Zero(Keys(cfg))
  /\ thumbs = Zero(Keys(cfg))
  /\ gateSaw = Unseen
  /\ cardWrites = Zero(Range(cfg.months))
  /\ fault = "none"
  /\ failedKey = NoKey
  /\ clean = TRUE
  /\ prevClean = FALSE

ResIdle ==
  /\ archive = {}
  /\ req = NoKey
  /\ out = [done |-> FALSE]

Init == PipeInit /\ ResIdle

\* The uncaught exception or the kill that ends the process.
Abort(why) ==
  /\ pc' = "aborted"
  /\ fault' = why
  /\ UNCHANGED <<mo, yr, seasonal_sequence, log>>

\* a retrieval failure of frame (mo, yr)
RetrievalFails ==
  /\ failedKey' = IF failedKey = NoKey THEN <<mo, yr>> ELSE failedKey
  /\ clean' = FALSE

\* variant of the title step: an existing card is reused and not written again
TitleCardCached ==
  /\ pc = "title"
  /\ UNCHANGED resVars
  /\ LET name == CutName(mo)
         cut_path == Join(out_dir, name)
     IN \/ /\ disk' = IF disk[name].exists THEN disk ELSE Put(name, CardFile)
           /\ cardWrites' = IF disk[name].exists THEN cardWrites
                             ELSE [cardWrites EXCEPT ![mo] = @ + 1]
           /\ seasonal_sequence' = Append2(seasonal_sequence, cut_path, TitleDuration)
           /\ yr' = Min(Years)
           /\ pc' = "gate"
           /\ UNCHANGED <<mo, log, fault>>
        \/ /\ Abort("title_draw")
           /\ UNCHANGED <<disk, cardWrites>>
  /\ UNCHANGED <<runVars, manifest, video, allCached0, calls, thumbs, gateSaw,
                 failedKey, clean, prevClean>>

\* lines 62-78: the cut scene of month mo
TitleCard ==
  /\ pc = "title"
  /\ UNCHANGED resVars
  /\ LET name == CutName(mo)
         cut_path == Join(out_dir, name)
     IN \/ \* the card is drawn (with the TrueType fonts, or with load_default()
           \* after the bare except of line 70) and saved, then appended
           /\ disk' = Put(name, CardFile)
           /\ cardWrites' = [cardWrites EXCEPT ![mo] = @ + 1]
           /\ seasonal_sequence' = Append2(seasonal_sequence, cut_path, TitleDuration)
           /\ yr' = Min(Years)
           /\ pc' = "gate"
           /\ UNCHANGED <<mo, log, fault>>
        \/ \* draw.text raises: nothing catches it
           /\ Abort("title_draw")
           /\ UNCHANGED <<disk, cardWrites>>
        \/ \* cut_img.save raises after opening the file for writing
           /\ Abort("title_save")
           /\ disk' = Put(name, IF disk[name].exists THEN Truncated(0) ELSE NoFile)
           /\ cardWrites' = [cardWrites EXCEPT ![mo] = @ + 1]
  /\ UNCHANGED <<runVars, manifest, video, allCached0, calls, thumbs, gateSaw,
                 failedKey, clean, prevClean>>

\* line 83: the cache gate of (mo, yr)
CacheGate ==
  /\ pc = "gate"
  /\ UNCHANGED resVars
  /\ LET f == disk[GuidedName(mo, yr)]
     IN /\ gateSaw' = f
        /\ pc' = IF MustGenerate(f) THEN "resolve" ELSE "label"
  /\ UNCHANGED <<runVars, mo, yr, seasonal_sequence, disk, manifest, video, log,
                 allCached0, calls, thumbs, cardWrites, fault, failedKey, clean, prevClean>>

\* line 85: img = get_guided_lst(yr, mo); col.size().getInfo() queries the source
Resolve ==
  /\ pc = "resolve"
  /\ UNCHANGED resVars
  /\ calls' = [calls EXCEPT ![<<mo, yr>>] = @ + 1]
  /\ \/ /\ pc' = "thumb"
        /\ UNCHANGED <<mo, yr, seasonal_sequence, log, fault, failedKey, clean>>
     \/ \* the source is unreachable: the exception is not caught
        /\ Abort("retrieval")
        /\ RetrievalFails
  /\ UNCHANGED <<runVars, disk, manifest, video,
                 allCached0, thumbs, gateSaw, cardWrites, prevClean>>

\* line 86: geemap.get_image_thumbnail(img, png_path, ...)
Thumbnail ==
  /\ pc = "thumb"
  /\ UNCHANGED resVars
  /\ thumbs' = [thumbs EXCEPT ![<<mo, yr>>] = @ + 1]
  /\ LET name == GuidedName(mo, yr)
     IN \/ \* the image is downloaded and written
           /\ \E s \in Sizes : disk' = Put(name, Whole(s))
           /\ pc' = "label"
           /\ UNCHANGED <<mo, yr, seasonal_sequence, log, fault, failedKey, clean>>
        \/ \* the download is refused: the call reports it on its own and returns,
           \* nothing is written, and line 86 looks neither at a result nor at the file
           /\ pc' = "label"
           /\ RetrievalFails
           /\ UNCHANGED <<mo, yr, seasonal_sequence, log, fault, disk>>
        \/ \* the call raises before writing
           /\ Abort("retrieval")
           /\ RetrievalFails
           /\ UNCHANGED disk
        \/ \* the call raises (or the process dies) while the file is being written
           /\ Abort("retrieval")
           /\ RetrievalFails
           /\ \E s \in Sizes : disk' = Put(name, Truncated(s))
  /\ UNCHANGED <<runVars, manifest, video,
                 allCached0, calls, gateSaw, cardWrites, prevClean>>

\* variant of the loop headers: the year loop stops one year early
AdvanceSkipsLastYear ==
  IF yr + 2 \in Years
  THEN /\ yr' = yr + 1 /\ mo' = mo /\ pc' = "gate"
  ELSE IF mo + 1 \in Months
       THEN /\ mo' = mo + 1 /\ yr' = Min(Years) /\ pc' = "title"
       ELSE /\ UNCHANGED <<mo, yr>> /\ pc' = "manifest"

\* the loop headers of lines 62 and 80, after the append of line 99
Advance ==
  IF yr + 1 \in Years
  THEN /\ yr' = yr + 1 /\ mo' = mo /\ pc' = "gate"
  ELSE IF mo + 1 \in Months
       THEN /\ mo' = mo + 1 /\ yr' = Min(Years) /\ pc' = "title"
       ELSE /\ UNCHANGED <<mo, yr>> /\ pc' = "manifest"

\* lines 88-99: the date label, then the append
Label ==
  /\ pc = "label"
  /\ UNCHANGED resVars
  /\ LET name == GuidedName(mo, yr)
         png_path == Join(out_dir, name)
         f == disk[name]
         LabelError == /\ log' = log \cup {"label_error"}
                       /\ clean' = FALSE
     IN /\ \/ \* opened, drawn and saved
              /\ f.exists /\ f.content = "whole"
              /\ \E s \in Sizes : disk' = Put(name, Whole(s))
              /\ UNCHANGED <<log, clean>>
           \/ \* Image.open, convert, truetype or a draw call raises
              /\ LabelError
              /\ UNCHANGED disk
           \/ \* label_img.save raises after opening the file for writing
              /\ f.exists /\ f.content = "whole"
              /\ LabelError
              /\ \E s \in Sizes : disk' = Put(name, Truncated(s))
        /\ seasonal_sequence' = Append2(seasonal_sequence, png_path, FrameDuration)
        /\ Advance
  /\ UNCHANGED <<runVars, manifest, video,
                 allCached0, calls, thumbs, gateSaw, cardWrites, fault, failedKey, prevClean>>

\* the process is terminated inside the frame loop
Terminate ==
  /\ pc \in {"title", "gate", "resolve", "thumb", "label"}
  /\ UNCHANGED resVars
  /\ Abort("killed")
  /\ UNCHANGED <<runVars, disk, manifest, video,
                 allCached0, calls, thumbs, gateSaw, cardWrites, failedKey, clean, prevClean>>

\* lines 107-112: ffmpeg_input.txt
FileLine(item) == <<"file '">> \o Basename(item.path) \o <<"'">>
DurationLine(item) == <<"duration ">> \o FloatStr(item.duration)
RECURSIVE ItemLines(_)
ItemLines(seq) ==
  IF seq = <<>> THEN <<>>
  ELSE <<FileLine(Head(seq)), DurationLine(Head(seq))>> \o ItemLines(Tail(seq))
\* variant of the manifest: the closing file line is left out
ManifestLinesNoTail(seq) == ItemLines(seq)
ManifestLines(seq) ==
  ItemLines(seq) \o (IF seq # <<>> THEN <<FileLine(seq[Len(seq)])>> ELSE <<>>)

WriteManifest ==
  /\ pc = "manifest"
  /\ UNCHANGED resVars
  /\ manifest' = ManifestLines(seasonal_sequence)
  /\ pc' = "encode"
  /\ UNCHANGED <<runVars, mo, yr, seasonal_sequence, disk, video, log, histVars>>

\* the concat demuxer cannot open a listed file that is not there
Encodable ==
  \A i \in 1..Len(seasonal_sequence) : disk[Basename(seasonal_sequence[i].path)].exists

\* variant of the encoding step: the prior output is removed only after a success
EncodeKeepsPrior ==
  /\ pc = "encode"
  /\ UNCHANGED resVars
  /\ pc' = "done"
  /\ \/ /\ Encodable
        /\ video' = "complete"
        /\ UNCHANGED <<log, fault>>
     \/ /\ UNCHANGED video
        /\ log' = log \cup {"ffmpeg_error"}
        /\ fault' = "encoder"
  /\ UNCHANGED <<runVars, mo, yr, seasonal_sequence, disk, manifest,
                 allCached0, calls, thumbs, gateSaw, cardWrites, failedKey, clean, prevClean>>

\* lines 121-125: remove the prior output, run the encoder, report a failure
Encode ==
  /\ pc = "encode"
  /\ UNCHANGED resVars
  /\ pc' = "done"
  /\ \/ \* os.remove raises: the except reports it and the encoder is never run
        /\ video # "absent"
        /\ log' = log \cup {"ffmpeg_error"}
        /\ fault' = "remove"
        /\ UNCHANGED video
     \/ \* the encoder writes the video
        /\ Encodable
        /\ video' = "complete"
        /\ UNCHANGED <<log, fault>>
     \/ \* subprocess.run raises (the encoder is missing or exits non-zero);
        \* what the encoder had written of the output stays
        /\ video' \in {"absent", "remnant"}
        /\ log' = log \cup {"ffmpeg_error"}
        /\ fault' = "encoder"
  /\ UNCHANGED <<runVars, mo, yr, seasonal_sequence, disk, manifest,
                 allCached0, calls, thumbs, gateSaw, cardWrites, failedKey, clean, prevClean>>

\* the script is started again on the same out_dir
StartRun ==
  /\ pc \in {"done", "aborted"}
  /\ UNCHANGED resVars
  /\ run < MaxRuns
  /\ run' = run + 1
  /\ pc' = "title"
  /\ mo' = Min(Months)
  /\ yr' = Min(Years)
  /\ seasonal_sequence' = <<>>
  /\ log' = {}
  /\ allCached0' = AllCached(disk, cfg)
  /\ calls' = Zero(Keys(cfg))
  /\ thumbs' = Zero(Keys(cfg))
  /\ gateSaw' = Unseen
  /\ cardWrites' = Zero(Months)
  /\ fault' = "none"
  /\ failedKey' = NoKey
  /\ clean' = TRUE
  /\ prevClean' = (pc = "done" /\ clean)
  /\ UNCHANGED <<cfg, disk, manifest, video>>

Next ==
  \/ TitleCard
  \/ CacheGate
  \/ Resolve
  \/ Thumbnail
  \/ Label
  \/ Terminate
  \/ WriteManifest
  \/ Encode
  \/ StartRun

Spec == Init /\ [][Next]_vars

\* ---- get_guided_lst (lines 29-52) over an archive of observations ----
\* A raster is a function from the pixels of roi to [valid, v]; a temperature v is
\* kept in units of 0.000125 degrees Celsius, which makes the scale transform of the
\* raw values used here and the mean of two of them exact.

Pixels == {1, 2}
Roads == {1}          \* the pixels a TIGER road crosses
RawValues == {37500, 50000}
Px(v) == [valid |-> TRUE, v |-> v]
MaskedPx == [valid |-> FALSE, v |-> 0]
Sats == {"LC08", "LC09"}
ObsYears == {FallbackLast, FallbackLast + 1}
ObsMonths == {1, 12}
Observations ==
  [sat : Sats, year : ObsYears, month : ObsMonths, cloud : {CloudLimit - 1, CloudLimit},
   band : [Pixels -> {MaskedPx} \cup {Px(r) : r \in RawValues}]]

\* ee.Date.fromYMD(year, month, 1) as a count of months; advance(1, 'month') adds one
MonthIndex(y, m) == y * 12 + (m - 1)

\* img.select(['ST_B10'], ['LST']).multiply(0.00341802).add(149.0).subtract(273.15)
ScaleValue(raw) == ((raw \div 100) * 2734416) \div 1000 + 1192000 - 2185200
apply_scale(band) ==
  [p \in DOMAIN band |-> IF band[p].valid THEN Px(ScaleValue(band[p].v)) ELSE MaskedPx]

\* collection.map(apply_scale)
MapScale(col) == {[o EXCEPT !.band = apply_scale(@)] : o \in col}

\* the values of the unmasked inputs at pixel p, ascending
RECURSIVE SortedAt(_, _)
SortedAt(col, p) ==
  IF col = {} THEN <<>>
  ELSE LET o == CHOOSE x \in col : \A y \in col : x.band[p].v <= y.band[p].v
       IN <<o.band[p].v>> \o SortedAt(col \ {o}, p)

\* collection.median(): per pixel the median of the unmasked inputs (the mean of the
\* two middle ones for an even count), masked where there is none
median(col) ==
  [p \in Pixels |->
     LET s == SortedAt({o \in col : o.band[p].valid}, p)
         n == Len(s)
     IN IF n = 0 THEN MaskedPx
        ELSE IF n % 2 = 1 THEN Px(s[(n + 1) \div 2])
        ELSE Px((s[n \div 2] + s[n \div 2 + 1]) \div 2)]

\* image.clip(roi): every modelled pixel lies inside roi
clip(img) == [p \in Pixels |-> img[p]]

\* variant of unmask: an image with any masked pixel is replaced as a whole
unmaskWhole(img, other) == IF \A p \in Pixels : img[p].valid THEN img ELSE other

\* image.unmask(other): a masked pixel takes the other image's pixel
unmask(img, other) == [p \in Pixels |-> IF img[p].valid THEN img[p] ELSE other[p]]

\* lines 35-39
Fallback(month) ==
  clip(median(MapScale(
        {o \in archive : /\ o.sat = "LC08"
                         /\ o.month = month
                         /\ o.year \in FallbackFirst..FallbackLast})))

\* lines 41-43
PrimaryCol(year, month) ==
  LET start_date == MonthIndex(year, month)
      end_date == start_date + 1
  IN {o \in archive : /\ o.sat \in {"LC08", "LC09"}
                      /\ start_date <= MonthIndex(o.year, o.month)
                      /\ MonthIndex(o.year, o.month) < end_date
                      /\ o.cloud < CloudLimit}

\* line 45
lst_img(col, fallback) ==
  IF Cardinality(col) > 0
  THEN unmask(clip(median(MapScale(col))), fallback)
  ELSE fallback

\* lines 48-52: visualize(min=0, max=40, palette) keeps the position on the palette
\* ramp; blend puts the half-opaque white road overlay on top
Clamp(v, lo, hi) == IF v < lo THEN lo ELSE IF v > hi THEN hi ELSE v
visualize(img) ==
  [p \in Pixels |->
     IF img[p].valid THEN Px(Clamp(img[p].v, VisMin * 8000, VisMax * 8000)) ELSE MaskedPx]
blend(base, overlay) ==
  [p \in Pixels |-> [valid |-> base[p].valid \/ p \in overlay,
                     v |-> base[p].v,
                     road |-> p \in overlay]]

ResInit ==
  /\ PipeInit
  /\ cfg.months = <<6, 7>>
  /\ archive = {}
  /\ req = NoKey
  /\ out = [done |-> FALSE]

\* the imagery source acquires one more observation
Ingest ==
  /\ ~out.done
  /\ UNCHANGED pipeVars
  /\ Cardinality(archive) < MaxObs
  /\ \E o \in Observations \ archive : archive' = archive \cup {o}
  /\ UNCHANGED <<req, out>>

\* get_guided_lst(year, month)
GetGuidedLst ==
  /\ ~out.done
  /\ UNCHANGED pipeVars
  /\ \E year \in ObsYears, month \in ObsMonths :
       LET fallback == Fallback(month)
           col == PrimaryCol(year, month)
           img == lst_img(col, fallback)
       IN /\ req' = <<month, year>>
          /\ out' = [done |-> TRUE,
                     size |-> Cardinality(col),
                     primary |-> clip(median(MapScale(col))),
                     fallback |-> fallback,
                     lst_img |-> img,
                     frame |-> blend(visualize(img), Roads)]
  /\ UNCHANGED archive

ResNext ==
  \/ Ingest
  \/ GetGuidedLst

ResolverSpec == ResInit /\ [][ResNext]_vars

\* ---- properties ----

\* the inverse of CutName / GuidedName: (month, kind, year), kind 0 for a title card
Num(ds) == IF Len(ds) = 2 THEN DigitVal(ds[1]) * 10 + DigitVal(ds[2])
           ELSE DigitVal(ds[1]) * 1000 + DigitVal(ds[2]) * 100
                + DigitVal(ds[3]) * 10 + DigitVal(ds[4])
ItemKey(item) ==
  LET n == Basename(item.path)
  IN IF n[1] = "cutscene_" THEN <<Num(SubSeq(n, 2, 3)), 0, 0>>
     ELSE <<Num(SubSeq(n, 2, 3)), 1, Num(SubSeq(n, 5, 8))>>
KeyLeq(a, b) ==
  \/ a[1] < b[1]
  \/ a[1] = b[1] /\ a[2] < b[2]
  \/ a[1] = b[1] /\ a[2] = b[2] /\ a[3] <= b[3]
Current == <<mo, yr>>
InFrame == pc \in {"resolve", "thumb", "label"}
NeedsRegeneration(f) == (f.exists = FALSE) \/ (f.exists /\ f.size < 50000)

\* C1: when the planning loop has ended, seasonal_sequence has one item per month
\* plus one per (month, year) (12 + 12*N for the script's twelve months), and for
\* each month in ascending order it holds the month's title card (2.0 s) followed
\* by the month's frames (1.0 s) for every year in ascending order; the
\* (month, kind, year) key never decreases between adjacent items.
C1_MonthMajorPlan ==
  pc \in {"manifest", "encode", "done"} =>
    LET seq == seasonal_sequence
        M == Cardinality(Months)
        N == Cardinality(Years)
    IN /\ Len(seq) = M + M * N
       /\ \A i \in 1..M :
            LET at == (i - 1) * (N + 1) + 1
                m == Min(Months) + i - 1
            IN /\ ItemKey(seq[at]) = <<m, 0, 0>>
               /\ seq[at].duration = TitleDuration
               /\ \A j \in 1..N :
                    /\ ItemKey(seq[at + j]) = <<m, 1, Min(Years) + j - 1>>
                    /\ seq[at + j].duration = FrameDuration
       /\ \A i \in 1..(Len(seq) - 1) : KeyLeq(ItemKey(seq[i]), ItemKey(seq[i + 1]))
C1_Witness ==
  /\ pc = "manifest"
  /\ Cardinality(Months) > 1 /\ Cardinality(Years) > 1
  /\ Len(seasonal_sequence) = Cardinality(Months) * (1 + Cardinality(Years))

\* C2: the manifest lists the items in sequence order, each as a file line and a
\* duration line (2.0 for a title card, 1.0 for a frame), then one more file line
\* equal to the last item's; it has one more file line than duration lines, and
\* for years {2020} and months {6} 3 file lines and the durations 2.0, 1.0.
IsFileLine(l) == l[1] = "file '"
IsDurationLine(l) == l[1] = "duration "
FileLines == {i \in 1..Len(manifest) : IsFileLine(manifest[i])}
DurationLines == {i \in 1..Len(manifest) : IsDurationLine(manifest[i])}
C2_Manifest ==
  pc \in {"encode", "done"} =>
    LET seq == seasonal_sequence
        n == Len(seq)
    IN /\ Len(manifest) = 2 * n + 1
       /\ \A i \in 1..n :
            /\ manifest[2 * i - 1] = <<"file '">> \o seq[i].path.base \o <<"'">>
            /\ manifest[2 * i] =
                 IF seq[i].path.base[1] = "cutscene_"
                 THEN <<"duration ", "2", ".", "0">>
                 ELSE <<"duration ", "1", ".", "0">>
       /\ manifest[2 * n + 1] = manifest[2 * n - 1]
       /\ Cardinality(FileLines) = Cardinality(DurationLines) + 1
       /\ (cfg = [months |-> <<6, 7>>, years |-> <<2020, 2021>>] =>
             /\ FileLines = {1, 3, 5}
             /\ manifest[2] = <<"duration ", "2", ".", "0">>
             /\ manifest[4] = <<"duration ", "1", ".", "0">>
             /\ manifest[1] = <<"file '", "cutscene_", "0", "6", ".png", "'">>
             /\ manifest[5] = <<"file '", "guided_", "0", "6", "_", "2", "0", "2", "0",
                                ".png", "'">>)
C2_Witness ==
  /\ pc = "encode"
  /\ cfg.months = <<6, 7>>
  /\ Len(manifest) = 5

\* C3: a run that started with every frame file present and of at least 50,000
\* bytes calls neither get_guided_lst nor get_image_thumbnail.
C3_AllCachedNoCalls ==
  allCached0 => \A k \in Keys(cfg) : calls[k] = 0 /\ thumbs[k] = 0
C3_Witness ==
  /\ allCached0
  /\ pc = "done"
  /\ Cardinality(Keys(cfg)) > 1

\* C4: once the retrieval for a frame has failed, the run has stopped at that frame,
\* the frame is not in the sequence, and its file is not a truncated one that the
\* cache gate accepts.
C4_RetrievalFailureStopsRun ==
  failedKey # NoKey =>
    LET name == GuidedName(failedKey[1], failedKey[2])
    IN /\ pc = "aborted"
       /\ Current = failedKey
       /\ \A i \in 1..Len(seasonal_sequence) : seasonal_sequence[i].path.base # name
       /\ ~(disk[name].content = "truncated" /\ ~NeedsRegeneration(disk[name]))

\* C5: no annotation failure, of a date label or of a title card, ends the run.
C5_AnnotationFailureNeverAborts ==
  /\ fault \notin {"title_draw", "title_save"}
  /\ ("label_error" \in log => fault \in {"none", "killed", "retrieval", "remove", "encoder"})

CardItems(m) ==
  {i \in 1..Len(seasonal_sequence) : seasonal_sequence[i].path.base = CutName(m)}
C9_GateDecidesCalls ==
  /\ [](/\ \A k \in Keys(cfg) : calls[k] <= 1 /\ thumbs[k] <= calls[k]
        /\ \A k \in Keys(cfg) :
             (k[1] > mo \/ (k[1] = mo /\ k[2] > yr)) => calls[k] = 0
        /\ (pc \in {"title", "gate"} => calls[Current] = 0)
        /\ (pc = "resolve" => NeedsRegeneration(gateSaw) /\ calls[Current] = 0)
        /\ (pc \in {"thumb", "label"} =>
              (calls[Current] = 1 <=> NeedsRegeneration(gateSaw))))
  /\ [][\A k \in Keys(cfg) :
          (calls'[k] # calls[k] /\ run' = run) => (k = Current /\ pc = "resolve")]_vars
C9_Witness ==
  /\ run > 1
  /\ pc = "label"
  /\ gateSaw.content = "truncated"
  /\ gateSaw.size >= Threshold
  /\ calls[Current] = 0

\* C10 as claimed: the run after a clean complete run makes no get_guided_lst call.
C10_ConvergesAfterCleanRun ==
  prevClean => \A k \in Keys(cfg) : calls[k] = 0

\* C10: after a run in which every fetch and every annotation succeeded, every frame
\* file the next run's gate looks at is there and whole, and that run calls
\* get_guided_lst for exactly the frames whose file was last saved with fewer than
\* 50,000 bytes: for none if there is no such file.
C10_RefetchesOnlySmallFiles ==
  prevClean =>
    /\ (InFrame => gateSaw.exists /\ gateSaw.content = "whole")
    /\ (pc = "resolve" => gateSaw.size < Threshold)
    /\ (pc \in {"thumb", "label"} => (calls[Current] = 1 <=> gateSaw.size < Threshold))
    /\ (allCached0 => \A k \in Keys(cfg) : calls[k] = 0)
C10_Witness ==
  /\ prevClean
  /\ pc = "thumb"
  /\ gateSaw.exists /\ gateSaw.content = "whole"
  /\ gateSaw.size < Threshold
  /\ calls[Current] = 1

\* C6: when the primary query returned no observation the result is the fallback
\* raster at every pixel; otherwise every pixel is the primary reduction's pixel
\* where that is present and the fallback raster's pixel where it is missing, and
\* so always one of the two.
C6_TwoTierFallback ==
  out.done =>
    /\ (out.size = 0 => \A p \in Pixels : out.lst_img[p] = out.fallback[p])
    /\ (out.size > 0 =>
          \A p \in Pixels :
            /\ (out.primary[p].valid => out.lst_img[p] = out.primary[p])
            /\ (~out.primary[p].valid => out.lst_img[p] = out.fallback[p])
            /\ out.lst_img[p] \in {out.primary[p], out.fallback[p]})
C6_Witness ==
  /\ out.done
  /\ out.size > 0
  /\ \E p, q \in Pixels :
       /\ ~out.primary[p].valid /\ out.fallback[p].valid
       /\ out.lst_img[p] = out.fallback[p]
       /\ out.primary[q].valid /\ out.fallback[q].valid
       /\ out.primary[q] # out.fallback[q]
       /\ out.lst_img[q] = out.primary[q]

====
